---- MODULE Spec2Model ----
(***************************************************************************)
(* Microbe Music: the tuning parameters of the page (base frequency,      *)
(* divisions per octave, note count, preset label), the frequency list    *)
(* derived from them, and the play/stop controller that emits the list    *)
(* note by note on a shared AudioContext.                                 *)
(*                                                                        *)
(* Numbers typed into the inputs are carried with one decimal digit, in   *)
(* tenths (Tenth), so that Math.round has something to do; baseHz is kept *)
(* in tenths of a hertz because the page never rounds it.  Math.pow is    *)
(* computed in fixed point with FracBits fractional bits of the exponent  *)
(* and values scaled by One.                                              *)
(***************************************************************************)
EXTENDS Integers, Sequences, FiniteSets

VARIABLES
    baseHz,          \* useState baseHz, in tenths of a hertz
    edo,             \* useState edo
    noteCount,       \* useState noteCount
    presetName,      \* useState presetName
    effectsPending,  \* the [edo] effects are scheduled and have not run yet
    audioCtx,        \* audioCtxRef.current is not null
    ctxCount,        \* AudioContext objects constructed so far
    ctxState,        \* ctx.state: "none" before creation, "suspended", "running"
    pending,         \* suspend()/resume() calls whose promise has not settled, in order
    stopFlagRef,     \* stopFlagRef.current
    playingRef,      \* playingRef.current
    proc,            \* the playScale() invocations: position, captured list, notes started
                     \* (i their number, played their frequencies), node pairs connected
    stopThrew,       \* some stop() call ended with a rejected promise
    suspendFailed,   \* some suspend() was refused
    notesAtStop,     \* per invocation: notes it had started at the latest stop(), -1 after a play()
    lastCall         \* the handler that ran last: "play", "stop" or "other"

vars == <<baseHz, edo, noteCount, presetName, effectsPending, audioCtx, ctxCount, ctxState,
          pending, stopFlagRef, playingRef, proc, stopThrew, suspendFailed,
          notesAtStop, lastCall>>

tuningVars == <<baseHz, edo, noteCount, presetName, effectsPending>>
audioVars == <<audioCtx, ctxCount, ctxState, pending, stopFlagRef, playingRef, proc,
               stopThrew, suspendFailed, notesAtStop>>

----------------------------------------------------------------------------
(* Bounds of the model *)

\* playScale() invocations that get past the re-entrancy check
MaxPlays == 2
\* suspend()/resume() calls a user gesture may leave unsettled
MaxPending == 1

Procs == 1..MaxPlays

----------------------------------------------------------------------------
(* Numbers *)

\* typed values carry one decimal digit
Tenth == 10
\* fixed-point scale of Math.pow's result
One == 16384
\* fractional bits of the exponent step/edo that Math.pow uses
FracBits == 10

Max2(a, b) == IF a >= b THEN a ELSE b
Min2(a, b) == IF a <= b THEN a ELSE b

\* Math.round of a value given in tenths: the nearest integer, halves upwards
Round(t) == (t + 5) \div Tenth

\* clampInt(n, min, max), n in tenths
ClampInt(t, min, max) == Max2(min, Min2(max, Round(t)))

\* round(2^(1/2^k) * One), k = 1..FracBits
RootTwo == <<23170, 19484, 17867, 17109, 16743, 16562, 16473, 16428, 16406, 16395>>

RECURSIVE Pow2Bits(_, _, _, _)
Pow2Bits(r, e, k, acc) ==
    IF k > FracBits THEN acc
    ELSE IF 2 * r >= e
         THEN Pow2Bits(2 * r - e, e, k + 1, (acc * RootTwo[k]) \div One)
         ELSE Pow2Bits(2 * r, e, k + 1, acc)

Pow2_IntegerExponent(step, e) == One * (2 ^ (step \div e))

\* Math.pow(2, step / edo), scaled by One
Pow2(step, e) == Pow2Bits(step % e, e, 1, One) * (2 ^ (step \div e))

freqForStep_OneBased(b, step, e) == b * Pow2(step + 1, e)

\* freqForStep(baseHz, step, edo), in units of 1/(Tenth * One) Hz
freqForStep(b, step, e) == b * Pow2(step, e)

\* cents of a step as the table prints it (toFixed(2)), in hundredths
Cents(step, e) == (1200 * step * 100) \div e

PRESETS == << [name |-> "12-EDO (standard)", edo |-> 12],
              [name |-> "19-EDO", edo |-> 19],
              [name |-> "31-EDO", edo |-> 31],
              [name |-> "53-EDO", edo |-> 53] >>

\* PRESETS.find(p => p.edo === e): the index of the first match, 0 when none
FindByEdo(e) ==
    IF \E k \in 1..Len(PRESETS) : PRESETS[k].edo = e
    THEN CHOOSE k \in 1..Len(PRESETS) :
            PRESETS[k].edo = e /\ \A j \in 1..(k - 1) : PRESETS[j].edo # e
    ELSE 0

\* PRESETS.find(x => x.name === name)
FindByName(n) ==
    IF \E k \in 1..Len(PRESETS) : PRESETS[k].name = n
    THEN CHOOSE k \in 1..Len(PRESETS) :
            PRESETS[k].name = n /\ \A j \in 1..(k - 1) : PRESETS[j].name # n
    ELSE 0

----------------------------------------------------------------------------
(* The frequency list *)

FreqsCount_Unclamped(nc, e) == nc

\* const count = clampInt(noteCount, 1, edo)
FreqsCount(nc, e) == ClampInt(nc * Tenth, 1, e)

RECURSIVE FreqList(_, _, _, _)
FreqList(b, e, count, i) ==
    IF i < count THEN <<freqForStep(b, i, e)>> \o FreqList(b, e, count, i + 1)
    ELSE <<>>

\* the memoised list of the current render
freqs == FreqList(baseHz, edo, FreqsCount(noteCount, edo), 0)

\* the rows of the scale table of the current render
ScaleTable ==
    LET f == freqs
    IN [k \in 1..Len(f) |->
          [step |-> k - 1, frequencyHz |-> f[k], cents |-> Cents(k - 1, edo)]]

----------------------------------------------------------------------------
(* Initial state: the page after mount; the mount effects change nothing *)

NotStarted == [pc |-> "idle", list |-> <<>>, i |-> 0, nodes |-> 0, played |-> <<>>]

Init ==
    /\ baseHz = 440 * Tenth
    /\ edo = 12
    /\ noteCount = 12
    /\ presetName = PRESETS[1].name
    /\ effectsPending = FALSE
    /\ audioCtx = FALSE
    /\ ctxCount = 0
    /\ ctxState = "none"
    /\ pending = <<>>
    /\ stopFlagRef = FALSE
    /\ playingRef = FALSE
    /\ proc = [p \in Procs |-> NotStarted]
    /\ stopThrew = FALSE
    /\ suspendFailed = FALSE
    /\ notesAtStop = [p \in Procs |-> -1]
    /\ lastCall = "other"

----------------------------------------------------------------------------
(* The tuning inputs.  v is the typed value in tenths. *)

\* onChange of the base frequency input: setBaseHz(Number(e.target.value))
SetBaseHz(v) ==
    /\ ~effectsPending
    /\ baseHz' = v
    /\ lastCall' = "other"
    /\ UNCHANGED <<edo, noteCount, presetName, effectsPending>>
    /\ UNCHANGED audioVars

\* onChange of the divisions input: setEdo(clampInt(Number(e.target.value), 5, 53))
SetEdo(v) ==
    /\ ~effectsPending
    /\ edo' = ClampInt(v, 5, 53)
    /\ effectsPending' = (edo' # edo)
    /\ lastCall' = "other"
    /\ UNCHANGED <<baseHz, noteCount, presetName>>
    /\ UNCHANGED audioVars

\* onChange of the note count input: setNoteCount(clampInt(Number(e.target.value), 1, edo))
SetNoteCount(v) ==
    /\ ~effectsPending
    /\ noteCount' = ClampInt(v, 1, edo)
    /\ lastCall' = "other"
    /\ UNCHANGED <<baseHz, edo, presetName, effectsPending>>
    /\ UNCHANGED audioVars

\* onChange of the preset select
SelectPreset(name) ==
    /\ ~effectsPending
    /\ presetName' = name
    /\ edo' = IF FindByName(name) # 0 THEN PRESETS[FindByName(name)].edo ELSE edo
    /\ effectsPending' = (edo' # edo)
    /\ lastCall' = "other"
    /\ UNCHANGED <<baseHz, noteCount>>
    /\ UNCHANGED audioVars

EffectNoteCount_Skipped(n, e) == n

\* setNoteCount((n) => clampInt(n, 1, edo))
EffectNoteCount(n, e) == ClampInt(n * Tenth, 1, e)

\* const match = PRESETS.find((p) => p.edo === edo); match ? match.name : "Custom"
LabelFor(e) == IF FindByEdo(e) # 0 THEN PRESETS[FindByEdo(e)].name ELSE "Custom"

\* the two effects that depend on [edo], run after the render that changed edo
RunEffects ==
    /\ effectsPending
    /\ noteCount' = EffectNoteCount(noteCount, edo)
    /\ presetName' = LabelFor(edo)
    /\ effectsPending' = FALSE
    /\ lastCall' = "other"
    /\ UNCHANGED <<baseHz, edo>>
    /\ UNCHANGED audioVars

----------------------------------------------------------------------------
(* The play/stop controller *)

\* the state a new AudioContext reports right after construction
NewContextStates == {"suspended", "running"}

EnsureCreates_Always(ctx) == TRUE

\* ensureAudioContext(): if (audioCtxRef.current) return it; else construct one
EnsureCreates(ctx) == ~ctx

PlayRejected_Never == FALSE

\* if (playingRef.current) return;
PlayRejected == playingRef

LoopCancelled_Never(flag) == FALSE

\* if (stopFlagRef.current) break;
LoopCancelled(flag) == flag

ExitSuspends_Never(flag, ctx, st) == FALSE

\* if (stopFlagRef.current) { ... if (ctx2 && ctx2.state === "running") suspend
ExitSuspends(flag, ctx, st) == flag /\ ctx /\ st = "running"

\* stop(): if (ctx && ctx.state === "running") suspend
StopSuspends(ctx, st) == ctx /\ st = "running"

SuspendFailureInStop_Thrown == "thrown"

\* stop(): try { await ctx.suspend() } catch { /* ignore */ }
SuspendFailureInStop == "ignored"

\* playScale(): await ctx.resume() stands outside any try
ResumeFailureInPlay == "thrown"

NextNote_Backwards(lst, i) == lst[Len(lst) - i]

\* for (const f of freqs): the entry the iteration after i notes takes, and
\* osc.frequency.setValueAtTime(f, now)
NextNote(lst, i) == lst[i + 1]

Cleanup_Forgotten(n) == n

\* osc.disconnect(); gain.disconnect(): the node pair of the note is released
Cleanup(n) == n - 1

LoopList_CurrentRender(r) == freqs

\* the freqs the loop iterates over: the array of the render whose playScale
\* was called
LoopList(r) == r.list

RunLoop_KeepsPlaying(p, r, flag, playing, ctx, st, q) ==
    IF r.i < Len(r.list) /\ ~flag
    THEN [rec |-> [r EXCEPT !.pc = "waiting", !.i = r.i + 1, !.nodes = r.nodes + 1,
                            !.played = Append(r.played, NextNote(r.list, r.i))],
          playing |-> playing, pending |-> q]
    ELSE IF flag /\ ctx /\ st = "running"
         THEN [rec |-> [r EXCEPT !.pc = "awaitSuspend"],
               playing |-> playing,
               pending |-> Append(q, [op |-> "suspend", by |-> p])]
         ELSE [rec |-> [r EXCEPT !.pc = "done"],
               playing |-> playing, pending |-> q]

\* The for loop from its head, for invocation p whose record is r (the captured
\* list, the notes started so far, the node pairs still connected): the flag
\* check, then either the next note (a new oscillator and gain, connected and
\* started) up to its await, or the exit down to its await or its end.
\* flag, playing, ctx, st, q are the values of the refs, of the context and of
\* the queue when the loop head is reached.
RunLoop(p, r, flag, playing, ctx, st, q) ==
    IF r.i < Len(LoopList(r)) /\ ~LoopCancelled(flag)
    THEN [rec |-> [r EXCEPT !.pc = "waiting", !.i = r.i + 1, !.nodes = r.nodes + 1,
                            !.played = Append(r.played, NextNote(LoopList(r), r.i))],
          playing |-> playing, pending |-> q]
    ELSE IF ExitSuspends(flag, ctx, st)
         THEN [rec |-> [r EXCEPT !.pc = "awaitSuspend"],
               playing |-> FALSE,
               pending |-> Append(q, [op |-> "suspend", by |-> p])]
         ELSE [rec |-> [r EXCEPT !.pc = "done"],
               playing |-> FALSE, pending |-> q]

\* playScale() entered with the list of the current render
Entered == [pc |-> "awaitResume", list |-> freqs, i |-> 0, nodes |-> 0, played |-> <<>>]

FreeSlots == {p \in Procs : proc[p].pc = "idle"}
NextSlot == CHOOSE p \in FreeSlots : \A q \in FreeSlots : p <= q

\* the Play button while a sequence is marked playing: playScale() returns at once
PlayIgnored ==
    /\ ~effectsPending
    /\ PlayRejected
    /\ lastCall' = "play"
    /\ UNCHANGED tuningVars
    /\ UNCHANGED audioVars

\* the Play button: playScale() down to its first await
Play ==
    /\ ~effectsPending
    /\ ~PlayRejected
    /\ FreeSlots # {}
    /\ lastCall' = "play"
    /\ stopFlagRef' = FALSE
    /\ audioCtx' = TRUE
    /\ ctxCount' = IF EnsureCreates(audioCtx) THEN ctxCount + 1 ELSE ctxCount
    /\ \E st \in (IF EnsureCreates(audioCtx) THEN NewContextStates ELSE {ctxState}) :
          /\ ctxState' = st
          /\ IF st = "suspended"
             THEN /\ Len(pending) < MaxPending
                  /\ pending' = Append(pending, [op |-> "resume", by |-> NextSlot])
                  /\ playingRef' = TRUE
                  /\ proc' = [proc EXCEPT ![NextSlot] = Entered]
             ELSE LET r == RunLoop(NextSlot, Entered, FALSE, TRUE, TRUE, st, pending)
                  IN /\ pending' = r.pending
                     /\ playingRef' = r.playing
                     /\ proc' = [proc EXCEPT ![NextSlot] = r.rec]
    /\ notesAtStop' = [p \in Procs |-> -1]
    /\ UNCHANGED <<stopThrew, suspendFailed>>
    /\ UNCHANGED tuningVars

Live(p) == proc[p].pc \in {"awaitResume", "waiting"}

\* the Stop button: stop() down to its await
Stop ==
    /\ ~effectsPending
    /\ lastCall' = "stop"
    /\ stopFlagRef' = TRUE
    /\ playingRef' = FALSE
    /\ IF StopSuspends(audioCtx, ctxState)
       THEN /\ Len(pending) < MaxPending
            /\ pending' = Append(pending, [op |-> "suspend", by |-> 0])
       ELSE UNCHANGED pending
    /\ notesAtStop' = [p \in Procs |-> IF Live(p) THEN proc[p].i ELSE notesAtStop[p]]
    /\ UNCHANGED <<audioCtx, ctxCount, ctxState, proc, stopThrew, suspendFailed>>
    /\ UNCHANGED tuningVars

\* the timer of a note's wait fires: cleanup, then the loop head again
TimerFires(p) ==
    /\ proc[p].pc = "waiting"
    /\ LET r == RunLoop(p, [proc[p] EXCEPT !.nodes = Cleanup(@)], stopFlagRef, playingRef,
                        audioCtx, ctxState, pending)
       IN /\ proc' = [proc EXCEPT ![p] = r.rec]
          /\ playingRef' = r.playing
          /\ pending' = r.pending
    /\ lastCall' = "other"
    /\ UNCHANGED <<audioCtx, ctxCount, ctxState, stopFlagRef, stopThrew, suspendFailed, notesAtStop>>
    /\ UNCHANGED tuningVars

\* the oldest suspend() settles: fulfilled (ok) or rejected
SuspendSettles(ok) ==
    /\ pending # <<>>
    /\ Head(pending).op = "suspend"
    /\ ctxState' = IF ok THEN "suspended" ELSE ctxState
    /\ suspendFailed' = (suspendFailed \/ ~ok)
    /\ pending' = Tail(pending)
    /\ LET by == Head(pending).by
       IN IF by = 0
          THEN /\ stopThrew' = (stopThrew \/ (~ok /\ SuspendFailureInStop = "thrown"))
               /\ UNCHANGED proc
          ELSE /\ proc' = [proc EXCEPT ![by].pc = "done"]
               /\ UNCHANGED stopThrew
    /\ lastCall' = "other"
    /\ UNCHANGED <<audioCtx, ctxCount, stopFlagRef, playingRef, notesAtStop>>
    /\ UNCHANGED tuningVars

\* the oldest resume() settles: fulfilled (ok), and playScale() goes on to its
\* loop, or rejected, and playScale() ends with that rejection
ResumeSettles(ok) ==
    /\ pending # <<>>
    /\ Head(pending).op = "resume"
    /\ ctxState' = IF ok THEN "running" ELSE ctxState
    /\ LET by == Head(pending).by
           r == RunLoop(by, proc[by], stopFlagRef, playingRef,
                        audioCtx, ctxState', Tail(pending))
       IN IF ok \/ ResumeFailureInPlay = "ignored"
          THEN /\ proc' = [proc EXCEPT ![by] = r.rec]
               /\ playingRef' = r.playing
               /\ pending' = r.pending
          ELSE /\ proc' = [proc EXCEPT ![by].pc = "failed"]
               /\ pending' = Tail(pending)
               /\ UNCHANGED playingRef
    /\ lastCall' = "other"
    /\ UNCHANGED <<audioCtx, ctxCount, stopFlagRef, stopThrew, suspendFailed, notesAtStop>>
    /\ UNCHANGED tuningVars

----------------------------------------------------------------------------
(* Specifications *)

\* typed values, in tenths
BaseInputs == {-50, 0, 495, 500, 4400, 20000, 20005, 30000}
EdoInputs == {-10, 44, 45, 74, 75, 190, 530, 1000}
NoteInputs == {-30, 0, 14, 15, 60, 1000}
PresetOptions == {PRESETS[k].name : k \in 1..Len(PRESETS)} \cup {"Custom"}

NextTuning ==
    \/ \E v \in BaseInputs : SetBaseHz(v)
    \/ \E v \in EdoInputs : SetEdo(v)
    \/ \E v \in NoteInputs : SetNoteCount(v)
    \/ \E n \in PresetOptions : SelectPreset(n)
    \/ RunEffects

\* the tuning panel alone
SpecTuning == Init /\ [][NextTuning]_vars

\* typed values for the scale table: every division count, whole and halfway
ScaleBaseInputs == {0, 1, 4405, 30000}
ScaleEdoInputs == {5 * d : d \in 9..107}
ScaleNoteInputs == {1000}

NextScale ==
    \/ \E v \in ScaleBaseInputs : SetBaseHz(v)
    \/ \E v \in ScaleEdoInputs : SetEdo(v)
    \/ \E v \in ScaleNoteInputs : SetNoteCount(v)
    \/ RunEffects

\* the scale table over every division count from 5 to 53
SpecScale == Init /\ [][NextScale]_vars

Next ==
    \/ PlayIgnored
    \/ Play
    \/ Stop
    \/ \E p \in Procs : TimerFires(p)
    \/ \E ok \in BOOLEAN : SuspendSettles(ok)
    \/ \E ok \in BOOLEAN : ResumeSettles(ok)

\* the play/stop controller on the list of the first render
Spec == Init /\ [][Next]_vars

\* typed values while the controller runs, in tenths
PageBaseInputs == {2200}
PageEdoInputs == {50}
PageNoteInputs == {20}

NextPage ==
    \/ \E v \in PageBaseInputs : SetBaseHz(v)
    \/ \E v \in PageEdoInputs : SetEdo(v)
    \/ \E v \in PageNoteInputs : SetNoteCount(v)
    \/ RunEffects
    \/ Play
    \/ Stop
    \/ \E p \in Procs : TimerFires(p)
    \/ SuspendSettles(TRUE)
    \/ ResumeSettles(TRUE)

\* the controller when resume() is never refused
NextResumed ==
    \/ PlayIgnored
    \/ Play
    \/ Stop
    \/ \E p \in Procs : TimerFires(p)
    \/ \E ok \in BOOLEAN : SuspendSettles(ok)
    \/ ResumeSettles(TRUE)

\* timers fire and the promises of suspend() and resume() settle
Fairness ==
    /\ \A p \in Procs : WF_vars(TimerFires(p))
    /\ WF_vars(\E ok \in BOOLEAN : SuspendSettles(ok))
    /\ WF_vars(ResumeSettles(TRUE))

\* the page after the note count input was set to 3, before any play()
InitThreeNotes ==
    /\ baseHz = 440 * Tenth
    /\ edo = 12
    /\ noteCount = ClampInt(3 * Tenth, 1, 12)
    /\ presetName = PRESETS[1].name
    /\ effectsPending = FALSE
    /\ audioCtx = FALSE
    /\ ctxCount = 0
    /\ ctxState = "none"
    /\ pending = <<>>
    /\ stopFlagRef = FALSE
    /\ playingRef = FALSE
    /\ proc = [p \in Procs |-> NotStarted]
    /\ stopThrew = FALSE
    /\ suspendFailed = FALSE
    /\ notesAtStop = [p \in Procs |-> -1]
    /\ lastCall = "other"

\* the controller on a list of three notes, with timers that fire and
\* promises that settle
SpecFair == InitThreeNotes /\ [][NextResumed]_vars /\ Fairness

\* the page, tuning panel and controller together, from a list of three notes
SpecPage == InitThreeNotes /\ [][NextPage]_vars

----------------------------------------------------------------------------
(* Claims about the controller, checked under Spec *)

\* invocation p can still start a note
CanStartNote(p) ==
    \/ proc[p].pc = "awaitResume"
    \/ proc[p].pc = "waiting" /\ proc[p].i < Len(proc[p].list)

NoLiveLoop == \A p \in Procs : ~Live(p)

\* every playScale() has returned and every suspend()/resume() has settled
Quiescent ==
    /\ pending = <<>>
    /\ \A p \in Procs : proc[p].pc \in {"idle", "done", "failed"}

\* some invocation starts a note in this step
NoteStarted == \E p \in Procs : proc'[p].i > proc[p].i

\* C1: at most one playback sequence is active at any time: in every
\* reachable state at most one note-emission loop can still start a note.
C1_AtMostOneLiveLoop ==
    Cardinality({p \in Procs : CanStartNote(p)}) <= 1

\* C2: play() called while the playing flag is set is a no-op: it starts no
\* note, queues no sequence, and leaves the cancellation flag, the playing
\* flag and the output session's state unchanged.
C2_PlayWhilePlayingIsNoOp ==
    [][(lastCall' = "play" /\ playingRef) =>
          UNCHANGED <<stopFlagRef, playingRef, audioCtx, ctxState, pending, proc>>]_vars

\* a play() was ignored while the one sequence was past its second note
C2_Witness ==
    /\ lastCall = "play"
    /\ playingRef
    /\ proc[1].pc = "waiting" /\ proc[1].i >= 2
    /\ \A q \in Procs \ {1} : proc[q].pc = "idle"

\* C3: if stop() is called while a sequence is running, after note index k
\* has been started, and play() is not called again, the sequence starts no
\* note beyond index k+1 (notesAtStop = k+1 notes started at the stop, so at
\* most k+2 notes are ever started).
C3_NoNoteBeyondNextAfterStop ==
    \A p \in Procs :
        (stopFlagRef /\ notesAtStop[p] >= 1) => proc[p].i <= notesAtStop[p] + 1

\* stop() came after note index 2 of 12 and the sequence has ended
C3_Witness ==
    /\ stopFlagRef
    /\ \E p \in Procs :
          /\ notesAtStop[p] = 3
          /\ Len(proc[p].list) = 12
          /\ proc[p].pc = "done"
          /\ proc[p].i = 3

\* C4: when a sequence has exited because of stop() (it ended before its
\* list did), play() has not been called again, no suspend was refused, and
\* the controller is idle again (every invocation has returned, every
\* suspend/resume has settled), the output session is suspended.
C4_SuspendedAfterStop ==
    ( /\ stopFlagRef
      /\ ~playingRef
      /\ Quiescent
      /\ ~suspendFailed
      /\ \E p \in Procs : proc[p].pc = "done" /\ proc[p].i < Len(proc[p].list) )
    => ctxState = "suspended"

\* one sequence was stopped during a note's wait, a later one while it was
\* still awaiting resume, and everything has settled
C4_Witness ==
    /\ stopFlagRef
    /\ ~playingRef
    /\ Quiescent
    /\ ~suspendFailed
    /\ \E p \in Procs : proc[p].pc = "done" /\ proc[p].i = 0
    /\ \E p \in Procs : /\ proc[p].pc = "done"
                        /\ proc[p].i >= 1
                        /\ proc[p].i < Len(proc[p].list)
    /\ ctxState = "suspended"

\* C5: stop() called when no sequence is active (with or without an output
\* session) never throws and leaves the controller idle: the flags end as
\* (cancelled, not playing), no invocation and no session state changes; a
\* further stop() in a row changes neither flag, nor the session, nor any
\* invocation (it can only request a suspend again while the session still
\* reports running).
C5_StopWhenIdle ==
    /\ [](~stopThrew)
    /\ [][(lastCall' = "stop" /\ ~playingRef /\ NoLiveLoop) =>
            /\ stopFlagRef' /\ ~playingRef' /\ NoLiveLoop'
            /\ UNCHANGED <<audioCtx, ctxCount, ctxState, proc>>
            /\ (lastCall = "stop" => UNCHANGED <<stopFlagRef, playingRef>>)]_vars

\* stop() was called after a sequence had played its whole list, and the
\* suspend it requested was refused
C5_Witness ==
    /\ lastCall = "other"
    /\ stopFlagRef
    /\ ~playingRef
    /\ suspendFailed
    /\ pending = <<>>
    /\ proc[1].pc = "done" /\ proc[1].i = Len(proc[1].list)
    /\ notesAtStop[1] = -1
    /\ \A q \in Procs \ {1} : proc[q].pc = "idle"

\* C6: a failure of suspend or resume is swallowed: neither stop() nor
\* play() fails because of it.
C6_FailuresSwallowed ==
    /\ ~stopThrew
    /\ \A p \in Procs : proc[p].pc # "failed"

\* C7: no note is started while the output session is suspended or while a
\* suspend requested by stop() is still pending.
C7_NoNoteWhileSuspended ==
    [][NoteStarted =>
          /\ ctxState' = "running"
          /\ \A k \in 1..Len(pending') :
                ~(pending'[k].op = "suspend" /\ pending'[k].by = 0)]_vars

----------------------------------------------------------------------------
(* Claims about the tuning panel, checked under SpecTuning *)

\* clamp(noteCount, 1, divisionsPerOctave) as the claim states it
ClampedCount ==
    IF noteCount < 1 THEN 1 ELSE IF noteCount > edo THEN edo ELSE noteCount

\* C8: for divisionsPerOctave in [5,53] the frequency list has exactly
\* clamp(noteCount, 1, divisionsPerOctave) entries, for steps 0..count-1 in
\* increasing order, also between a change of divisionsPerOctave and the
\* re-clamping of noteCount.
C8_ListLength ==
    /\ edo \in 5..53
    /\ Len(freqs) = ClampedCount
    /\ \A k \in 1..Len(freqs) :
          /\ ScaleTable[k].step = k - 1
          /\ freqs[k] = freqForStep(baseHz, k - 1, edo)

\* divisionsPerOctave was lowered below noteCount and the effect has not run
C8_Witness ==
    /\ effectsPending
    /\ noteCount = 53
    /\ edo = 5
    /\ Len(freqs) = 5

\* C9: after any sequence of input events baseFrequencyHz is within
\* [50, 2000] (baseHz is in tenths of a hertz).
C9_BaseInRange == baseHz \in (50 * Tenth)..(2000 * Tenth)

\* C10: entry 0 of the scale has frequencyHz equal to baseFrequencyHz and
\* cents equal to 0 (frequencies are in units of 1/(Tenth * One) Hz, baseHz
\* in tenths of a hertz).
C10_StepZero ==
    /\ ScaleTable[1].step = 0
    /\ ScaleTable[1].frequencyHz = baseHz * One
    /\ ScaleTable[1].cents = 0

\* a base frequency and a division count other than the initial ones
C10_Witness ==
    /\ baseHz = 20005
    /\ edo = 19
    /\ ~effectsPending
    /\ ScaleTable[1].frequencyHz = 20005 * One

----------------------------------------------------------------------------
(* Claims about the scale table, checked under SpecScale *)

----------------------------------------------------------------------------
(* Claims about the controller when timers fire and resume completes,
   checked under SpecFair *)

\* the loop of invocation p has ended: playScale() is past line 137
LoopEnded(p) == proc[p].pc \in {"awaitSuspend", "done"}

\* C12: every sequence started by play() eventually ends, by exhausting its
\* list or on the cancellation flag, and the step that ends it clears the
\* playing flag; a sequence starts at most as many notes as its list has
\* entries.
C12_SequenceEnds ==
    /\ \A p \in Procs : Live(p) ~> LoopEnded(p)
    /\ [][\A p \in Procs : (Live(p) /\ LoopEnded(p)') => ~playingRef']_vars
    /\ [](\A p \in Procs : proc[p].i <= Len(proc[p].list))

\* one sequence played its whole list and another was cancelled
C12_Witness ==
    /\ ~playingRef
    /\ \E p \in Procs : proc[p].pc = "done" /\ proc[p].i = Len(proc[p].list)
    /\ \E p \in Procs : proc[p].pc = "done" /\ proc[p].i < Len(proc[p].list)

----------------------------------------------------------------------------
(* Further claims about the controller, checked under Spec *)

\* stop() came during the wait invocation p is in, and no play() since
StoppedInThisWait(p) ==
    proc[p].pc = "waiting" /\ notesAtStop[p] = proc[p].i

\* stop() only sets the two flags and may request a suspend
StopOnlySetsFlags ==
    lastCall' = "stop" =>
        /\ stopFlagRef' /\ ~playingRef'
        /\ UNCHANGED <<audioCtx, ctxCount, ctxState, proc>>
        /\ \/ pending' = pending
           \/ pending' = Append(pending, [op |-> "suspend", by |-> 0])

\* an invocation leaves a note's wait only by its timer
WaitEndsByTimer ==
    \A p \in Procs :
        (proc[p].pc = "waiting" /\ proc'[p] # proc[p]) => TimerFires(p)

\* for an invocation stopped during a wait the cancellation flag stays set
\* until that wait ends, and it then leaves the loop with no further note
StoppedWaitExits ==
    \A p \in Procs :
        StoppedInThisWait(p) =>
            IF proc'[p] # proc[p]
            THEN LoopEnded(p)' /\ proc'[p].i = proc[p].i
            ELSE stopFlagRef'

\* C13: stop() does not interrupt the in-flight wait: stop() itself only
\* sets the flags and requests the mute, the loop leaves the wait only when
\* its timer fires, starts no note in between, and exits at the next flag
\* check.
C13_StopDoesNotInterruptWait ==
    [][StopOnlySetsFlags /\ WaitEndsByTimer /\ StoppedWaitExits]_vars

\* the parts of C13 that do not depend on the flag staying set
C13_StopLeavesWaitAlone ==
    [][StopOnlySetsFlags /\ WaitEndsByTimer]_vars


\* the notes invocation p has started are the first entries of its list, in
\* list order, none of them twice
PlayedIsPrefix(p) ==
    /\ Len(proc[p].played) = proc[p].i
    /\ proc[p].i <= Len(proc[p].list)
    /\ \A k \in 1..Len(proc[p].played) : proc[p].played[k] = proc[p].list[k]
    /\ \A k \in 1..(Len(proc[p].played) - 1) :
          proc[p].played[k] < proc[p].played[k + 1]

\* a step starts at most one note of invocation p, and a note after the first
\* only out of the wait of the note before it, when that wait's timer fires
OneNoteAfterWait(p) ==
    /\ proc'[p].i \in {proc[p].i, proc[p].i + 1}
    /\ (proc'[p].i = proc[p].i + 1 /\ proc[p].i >= 1) =>
          (proc[p].pc = "waiting" /\ TimerFires(p))

\* C14: within one sequence notes are started strictly in list order, each
\* at most once, so the notes started so far form a prefix of the frequency
\* list; note i+1 is started only after the pacing wait of note i has
\* elapsed.
C14_NotesInListOrder ==
    /\ [](\A p \in Procs : PlayedIsPrefix(p))
    /\ [][\A p \in Procs : OneNoteAfterWait(p)]_vars

\* one sequence has started all twelve notes, another its first five
C14_Witness ==
    /\ proc[1].i = 12 /\ proc[1].played = proc[1].list
    /\ proc[2].i = 5 /\ proc[2].pc = "waiting"

\* C15: each note's generator and gain nodes are released before the next
\* note is started and before the loop exits: a note is started only by a
\* sequence that holds no node pair (it then holds exactly one), a sequence
\* whose loop has ended holds none, and no sequence ever holds more than one.
C15_NodesReleased ==
    /\ [](\A p \in Procs :
            /\ proc[p].nodes \in {0, 1}
            /\ (proc[p].pc \in {"awaitSuspend", "done"} => proc[p].nodes = 0))
    /\ [][\A p \in Procs : proc'[p].i > proc[p].i => proc'[p].nodes = 1]_vars

\* a sequence ended by exhaustion and one ended by cancellation, both past
\* several notes
C15_Witness ==
    /\ proc[1].pc = "done" /\ proc[1].i = Len(proc[1].list) /\ proc[1].nodes = 0
    /\ proc[2].pc = "done" /\ proc[2].i = 3 /\ proc[2].nodes = 0


\* C16: the output session is created lazily by the first play() that gets
\* past the re-entrancy check and is then reused: at most one session is
\* ever constructed, there is one as soon as a playScale() has been entered,
\* only such a play() constructs it, stop() never does, and an existing
\* session is never dropped or replaced.
C16_OneSession ==
    /\ [](/\ ctxCount <= 1
          /\ audioCtx <=> (ctxCount = 1)
          /\ audioCtx <=> (\E p \in Procs : proc[p].pc # "idle")
          /\ audioCtx <=> (ctxState # "none"))
    /\ [][/\ (ctxCount' # ctxCount) =>
                (lastCall' = "play" /\ ~playingRef /\ ctxCount = 0)
          /\ (lastCall' = "stop") => UNCHANGED <<audioCtx, ctxCount>>
          /\ audioCtx => audioCtx']_vars

\* one session after two accepted play() calls with a stop() between them
C16_Witness ==
    /\ ctxCount = 1
    /\ audioCtx
    /\ \A p \in Procs : proc[p].pc = "done"
    /\ stopFlagRef

----------------------------------------------------------------------------
(* Further claims about the tuning panel, checked under SpecTuning *)

\* C17 as stated: in every reachable state of the tuning parameters the
\* division count is in [5,53] and the note count is in [1, edo], the state
\* between a lowering of edo and the re-clamping effect included.
C17_InRangeAlways ==
    /\ edo \in 5..53
    /\ noteCount \in 1..edo

\* C17: the division count is always in [5,53]; the note count is always in
\* [1,53] and is in [1, edo] whenever the re-clamping effect is not pending;
\* while it is pending the note count may exceed edo, and the frequency list
\* is then still no longer than edo.
C17_InRangeOnceClamped ==
    /\ edo \in 5..53
    /\ noteCount \in 1..53
    /\ ~effectsPending => noteCount \in 1..edo
    /\ Len(freqs) \in 1..edo

\* edo was lowered to 5 under a note count of 12 and the effect has not run
\* yet: the note count is out of range, the list has five entries
C17_Witness ==
    /\ effectsPending
    /\ edo = 5
    /\ noteCount = 12
    /\ Len(freqs) = 5

\* C18: once pending effects have run, the preset label is the name of the
\* preset whose division count equals edo when there is one, and "Custom"
\* otherwise.
C18_LabelAgrees ==
    ~effectsPending => presetName = LabelFor(edo)

----------------------------------------------------------------------------
(* Claims about the controller while the tuning inputs change, checked
   under SpecPage *)

\* the notes invocation p has started are the first entries of the list it
\* captured on entry
PlayedFromCapturedList(p) ==
    /\ Len(proc[p].played) = proc[p].i
    /\ proc[p].i <= Len(proc[p].list)
    /\ \A k \in 1..Len(proc[p].played) : proc[p].played[k] = proc[p].list[k]

\* the list of invocation p is the frequency list of the render in which
\* play() was invoked, and no later step changes it
ListCapturedOnEntry(p) ==
    /\ (proc[p].pc = "idle" /\ proc'[p].pc # "idle") => proc'[p].list = freqs
    /\ proc[p].pc # "idle" => proc'[p].list = proc[p].list

\* the loop of invocation p ends short of its list only on the cancellation flag
EndsShortOnlyOnFlag(p) ==
    (~LoopEnded(p) /\ LoopEnded(p)' /\ proc'[p].i < Len(proc'[p].list)) => stopFlagRef

\* C19: a sequence plays the frequency list as it was when play() was
\* invoked: the list is captured on entry and never changes, every note
\* started is an entry of it in order, and the loop stops short of it only on
\* the cancellation flag, whatever the tuning inputs do meanwhile.
C19_PlaysCapturedList ==
    /\ [](\A p \in Procs : PlayedFromCapturedList(p))
    /\ [][\A p \in Procs : ListCapturedOnEntry(p) /\ EndsShortOnlyOnFlag(p)]_vars

\* a sequence entered on three notes from 440 Hz has started all three while
\* the page now shows two notes of 5-EDO from 220 Hz
C19_Witness ==
    /\ proc[1].pc = "waiting"
    /\ proc[1].i = 3
    /\ proc[1].played = proc[1].list
    /\ proc[1].list[1] = 440 * Tenth * One
    /\ freqs[1] = 220 * Tenth * One
    /\ baseHz = 220 * Tenth /\ edo = 5 /\ noteCount = 2
    /\ Len(freqs) = 2
    /\ ~stopFlagRef

----------------------------------------------------------------------------
(* Claims about stop() followed by play(), checked under Spec *)

\* playScale() of invocation p is over: its loop has ended or its resume()
\* was refused
RunOver(p) == proc[p].pc \in {"awaitSuspend", "done", "failed"}

\* a play() that gets past the re-entrancy check leaves the flag cleared
AcceptedPlayClearsFlag ==
    (\E p \in Procs : proc[p].pc = "idle" /\ proc'[p].pc # "idle") => ~stopFlagRef'

\* a loop that ends with no stop() since the latest play() has started every
\* note of its list
UnstoppedLoopPlaysAll ==
    \A p \in Procs :
        (~LoopEnded(p) /\ LoopEnded(p)' /\ notesAtStop'[p] = -1) =>
            proc'[p].i = Len(proc'[p].list)

\* an invocation that is over with no stop() since the latest play() has
\* started every note of its list
UnstoppedRunPlaysAll ==
    \A p \in Procs :
        (~RunOver(p) /\ RunOver(p)' /\ notesAtStop'[p] = -1) =>
            proc'[p].i = Len(proc'[p].list)

\* C20: a stop() issued earlier does not cancel a later sequence: an accepted
\* play() clears the cancellation flag before its first flag check, and a
\* run during which stop() is not called starts every note of its list.
C20_EarlierStopDoesNotCancel ==
    [][AcceptedPlayClearsFlag /\ UnstoppedRunPlaysAll]_vars

\* the part of C20 about runs whose resume() is not refused
C20_UnstoppedLoopPlaysAll ==
    [][AcceptedPlayClearsFlag /\ UnstoppedLoopPlaysAll]_vars

====
